---- MODULE Spec2Model ----
(***************************************************************************)
(* cloudflare-dns-sync (src/main.go): one run of main() resolves the       *)
(* external IPv4/IPv6 addresses, lists the DNS records of a zone and       *)
(* PATCHes every record whose name is configured and whose content differs *)
(* from the resolved address of its type.  The remote collaborators        *)
(* (icanhazip.com, the Cloudflare API) are the environment: each network   *)
(* call is one step that issues the request and one step that receives an  *)
(* answer chosen from a small set.                                         *)
(*                                                                         *)
(* Strings are sequences of one-character strings, so that Split,          *)
(* TrimSpace and the exact comparison of names are computed, not assumed.  *)
(***************************************************************************)
EXTENDS Integers, Sequences, FiniteSets, TLC

VARIABLES
    zoneId,              \* *zoneId            (main.go:68)
    email,               \* *email             (main.go:69)
    key,                 \* *key               (main.go:70)
    dnsNamesRawInput,    \* *dnsNamesRawInput  (main.go:71)
    dnsNames,            \* main.go:78
    ipv4,                \* local of getExternalIpAddresses (main.go:160)
    ipAddresses,         \* main.go:80, a map; the nil map is the empty function
    dnsRecordsResponses, \* main.go:86
    idx,                 \* position of the range loop of main.go:91
    pc,                  \* where main() stands
    exit,                \* process exit code, "none" while running
    log,                 \* every network request of this run, in order, with its outcome
    provider,            \* the DNS provider's records of the zone (remote state)
    run,                 \* "first" or "second" invocation of the program
    prev                 \* what the first invocation resolved and how it ended

vars == <<zoneId, email, key, dnsNamesRawInput, dnsNames, ipv4, ipAddresses,
          dnsRecordsResponses, idx, pc, exit, log, provider, run, prev>>

conf == <<zoneId, email, key, dnsNamesRawInput>>

----------------------------------------------------------------------------
(* Bounds of the model *)

\* the longest record list the provider holds
MaxRecords == 2

----------------------------------------------------------------------------
(* Constants of the program *)

A == "A"
AAAA == "AAAA"
CLOUDFLARE == <<"api.cloudflare.com", "zones">>
StatusOK == "200"

----------------------------------------------------------------------------
(* Pure functions *)

Whitespace == {" ", "\n"}

RECURSIVE TrimLeft(_)
TrimLeft(s) ==
    IF s # <<>> /\ Head(s) \in Whitespace THEN TrimLeft(Tail(s)) ELSE s

RECURSIVE TrimRight(_)
TrimRight(s) ==
    IF s # <<>> /\ s[Len(s)] \in Whitespace
    THEN TrimRight(SubSeq(s, 1, Len(s) - 1))
    ELSE s

\* strings.TrimSpace
TrimSpace(s) == TrimRight(TrimLeft(s))

\* strings.Split(s, sep) for a one-character separator: always at least one
\* field, empty fields kept
RECURSIVE Split(_, _)
Split(s, sep) ==
    IF \A i \in 1..Len(s) : s[i] # sep
    THEN <<s>>
    ELSE LET p == CHOOSE i \in 1..Len(s) :
                      s[i] = sep /\ \A j \in 1..(i - 1) : s[j] # sep
         IN  <<SubSeq(s, 1, p - 1)>> \o Split(SubSeq(s, p + 1, Len(s)), sep)

\* contains with a prefix test in place of equality
containsPrefix(list, value) ==
    \E i \in 1..Len(list) :
        /\ Len(value) <= Len(list[i])
        /\ SubSeq(list[i], 1, Len(value)) = value

\* contains(list, value): exact equality with some item
contains(list, value) == \E i \in 1..Len(list) : list[i] = value

\* CreateDnsRecordFrom: the five fields the run needs
CreateDnsRecordFrom(entry) ==
    [Id |-> entry.Id, ZoneId |-> entry.ZoneId, Type |-> entry.Type,
     Name |-> entry.Name, Content |-> entry.Content]

----------------------------------------------------------------------------
(* The environment: what the remote collaborators can answer *)

NoBody == [kind |-> "none", result |-> <<>>, text |-> <<>>]
TextBody(t) == [kind |-> "text", result |-> <<>>, text |-> t]

\* client.Do / http.Get returned an error and no response
NetErr == [kind |-> "neterr", status |-> "", body |-> NoBody,
           readErr |-> FALSE, closeErr |-> FALSE]

\* client.Do returned an error together with the last response, its body
\* already closed (the redirect policy stopped the request)
RedirectErr == [kind |-> "redirect", status |-> "302", body |-> NoBody,
                readErr |-> TRUE, closeErr |-> FALSE]

\* a response arrived: status line, the bytes ioutil.ReadAll yields, whether
\* ReadAll also reports an error, whether Body.Close reports one
Resp(status, body, readErr, closeErr) ==
    [kind |-> "resp", status |-> status, body |-> body,
     readErr |-> readErr, closeErr |-> closeErr]

\* the address-echo service answers with the literal address and a newline
EchoBodies(version) ==
    IF version = "ipv4" THEN {<<"1", "\n">>, <<"2">>} ELSE {<<" ", "a", "\n">>}

LookupResponses(version) ==
    {NetErr, RedirectErr}
    \cup {Resp(StatusOK, TextBody(b), FALSE, FALSE) : b \in EchoBodies(version)}
    \cup {Resp(StatusOK, TextBody(<<>>), TRUE, FALSE),
          Resp("500", TextBody(<<"e">>), FALSE, FALSE)}

\* the provider's records: id fixes zone, name and type; content varies
ProviderRecord(id, zone, name, type, content) ==
    [id |-> id, zone_id |-> zone, name |-> name, type |-> type,
     content |-> content, ttl |-> "1"]

RecordUniverse ==
    {ProviderRecord("r1", "z1", <<"h">>, "A", c) : c \in {<<"1">>, <<"2">>}}
    \cup {ProviderRecord("r2", "z1", <<"h">>, "AAAA", c) : c \in {<<"a">>, <<"b">>}}
    \cup {ProviderRecord("r3", "z1", <<"h">>, "MX", <<"m">>)}
    \cup {ProviderRecord("r4", "z2", <<"o">>, "A", c) : c \in {<<"1">>, <<"2">>}}

RECURSIVE SeqsUpTo(_, _)
SeqsUpTo(S, n) ==
    IF n = 0 THEN {<<>>}
    ELSE LET shorter == SeqsUpTo(S, n - 1)
         IN  shorter \cup {Append(q, x) : q \in shorter, x \in S}

\* a record listed twice is the same record twice
ProviderStates ==
    {q \in SeqsUpTo(RecordUniverse, MaxRecords) :
        \A i, j \in 1..Len(q) : q[i].id = q[j].id => q[i] = q[j]}

ListBody(records) == [kind |-> "list", result |-> records, text |-> <<>>]
NoResultBody == [kind |-> "noresult", result |-> <<>>, text |-> <<>>]
GarbageBody == [kind |-> "garbage", result |-> <<>>, text |-> <<>>]

FetchResponses(records) ==
    {NetErr, RedirectErr,
     Resp(StatusOK, ListBody(records), FALSE, FALSE),
     Resp(StatusOK, ListBody(records), TRUE, FALSE),
     Resp(StatusOK, ListBody(records), FALSE, TRUE),
     Resp(StatusOK, GarbageBody, FALSE, FALSE),
     Resp("403", NoResultBody, FALSE, FALSE)}

UpdateResponses ==
    {NetErr,
     Resp(StatusOK, TextBody(<<"o", "k">>), FALSE, FALSE),
     Resp(StatusOK, TextBody(<<>>), TRUE, FALSE),
     Resp(StatusOK, TextBody(<<"o", "k">>), FALSE, TRUE),
     Resp("403", TextBody(<<"n", "o">>), FALSE, FALSE),
     Resp("403", TextBody(<<>>), TRUE, FALSE)}

\* the provider applies a PATCH it answers with 200 to the record the URL names
ApplyPatch(records, url, data) ==
    [i \in 1..Len(records) |->
        IF url = CLOUDFLARE \o <<records[i].zone_id, "dns_records", records[i].id>>
        THEN [records[i] EXCEPT !.content = data.content]
        ELSE records[i]]

----------------------------------------------------------------------------
(* The functions of main.go, each applied to the answer its request got.    *)
(* out: "return" (the function returns val, err), "fatal" (log.Fatal inside *)
(* the function: exit code 1) or "panic" (run-time panic: exit code 2).     *)

NoErr == [kind |-> "nil", data |-> <<>>, status |-> "", body |-> <<>>]
TransportErr == [kind |-> "transport", data |-> <<>>, status |-> "", body |-> <<>>]
ReadErr == [kind |-> "read", data |-> <<>>, status |-> "", body |-> <<>>]
DecodeErr == [kind |-> "decode", data |-> <<>>, status |-> "", body |-> <<>>]
CloseErr == [kind |-> "close", data |-> <<>>, status |-> "", body |-> <<>>]

\* errors.New("Could not update DNS record " + data + status + body)
UpdateErr(data, status, body) ==
    [kind |-> "update", data |-> data, status |-> status, body |-> body]

Outcome(out, val, err, closed) ==
    [out |-> out, val |-> val, err |-> err, closed |-> closed]

\* getExternalIpAddress: the err returned on a non-200 status is the nil err
\* of http.Get; a Close error is dropped
getExternalIpAddress(resp) ==
    IF resp.kind # "resp"
    THEN Outcome("return", <<>>, TransportErr, FALSE)
    ELSE IF resp.status = StatusOK
    THEN IF resp.readErr
         THEN Outcome("fatal", <<>>, ReadErr, FALSE)
         ELSE Outcome("return", TrimSpace(resp.body.text), NoErr, TRUE)
    ELSE Outcome("return", <<>>, NoErr, TRUE)

\* json.Unmarshal into DnsRecordsResponse: the entries of "result", a
\* document without "result" gives no entries, anything else an error
DecodeEntry(o) ==
    [Id |-> o.id, ZoneId |-> o.zone_id, Name |-> o.name, Type |-> o.type,
     Content |-> o.content, Ttl |-> o.ttl]

Unmarshal(body) ==
    IF body.kind = "list"
    THEN [err |-> NoErr,
          Result |-> [i \in 1..Len(body.result) |-> DecodeEntry(body.result[i])]]
    ELSE IF body.kind = "noresult"
    THEN [err |-> NoErr, Result |-> <<>>]
    ELSE [err |-> DecodeErr, Result |-> <<>>]

\* getDnsRecords: the error of client.Do is not looked at and response.Body
\* is read off a nil response; the error and the status of the response are
\* not looked at either
getDnsRecords(resp) ==
    IF resp.kind = "neterr"
    THEN Outcome("panic", <<>>, TransportErr, FALSE)
    ELSE LET u == Unmarshal(resp.body)
         IN  IF resp.closeErr
             THEN Outcome("fatal", <<>>, CloseErr, TRUE)
             ELSE IF u.err.kind # "nil"
             THEN Outcome("return", <<>>, u.err, TRUE)
             ELSE Outcome("return", u.Result, NoErr, TRUE)

\* json.Marshal(map[string]string{"content": record.Content})
Marshal(record) == [content |-> record.Content]

\* the record URL built under the configured zone instead of the record's own
RecordUrlConfiguredZone(record) == CLOUDFLARE \o <<zoneId, "dns_records", record.Id>>

\* CLOUDFLARE + record.ZoneId + "/dns_records/" + record.Id
RecordUrl(record) == CLOUDFLARE \o <<record.ZoneId, "dns_records", record.Id>>

\* CLOUDFLARE + zoneId + "/dns_records"
ListUrl(zone) == CLOUDFLARE \o <<zone, "dns_records">>

\* "https://" + version + ".icanhazip.com/"
EchoUrl(version) == <<version, "icanhazip.com">>

\* updateDnsRecord without the test of the status code
updateDnsRecordAnyStatus(data, resp) ==
    IF resp.kind # "resp"
    THEN Outcome("return", <<>>, TransportErr, FALSE)
    ELSE IF resp.closeErr
    THEN Outcome("fatal", <<>>, CloseErr, TRUE)
    ELSE IF resp.readErr
    THEN Outcome("return", <<>>, ReadErr, TRUE)
    ELSE Outcome("return", <<>>, NoErr, TRUE)

\* updateDnsRecord, from client.Do on: the deferred Close runs after the
\* return value is set, and a Close error ends the process there
updateDnsRecord(data, resp) ==
    IF resp.kind # "resp"
    THEN Outcome("return", <<>>, TransportErr, FALSE)
    ELSE IF resp.closeErr
    THEN Outcome("fatal", <<>>, CloseErr, TRUE)
    ELSE IF resp.readErr
    THEN Outcome("return", <<>>, ReadErr, TRUE)
    ELSE IF resp.status # StatusOK
    THEN Outcome("return", <<>>, UpdateErr(data, resp.status, resp.body.text), TRUE)
    ELSE Outcome("return", <<>>, NoErr, TRUE)

\* the test without the comparison of the content
NeedsUpdateAlways(names, addresses, dnsRecord) ==
    /\ contains(names, dnsRecord.Name)
    /\ dnsRecord.Type \in DOMAIN addresses

\* the test with records already sent to the provider in this run left out
NeedsUpdateOnce(names, addresses, dnsRecord) ==
    /\ contains(names, dnsRecord.Name)
    /\ dnsRecord.Type \in DOMAIN addresses
    /\ addresses[dnsRecord.Type] # dnsRecord.Content
    /\ \A k \in 1..Len(log) : log[k].url # RecordUrl(dnsRecord)

\* the test of main.go:95-102 on one record: is it sent to updateDnsRecord
NeedsUpdate(names, addresses, dnsRecord) ==
    /\ contains(names, dnsRecord.Name)
    /\ dnsRecord.Type \in DOMAIN addresses
    /\ addresses[dnsRecord.Type] # dnsRecord.Content

----------------------------------------------------------------------------
(* The log of requests *)

\* a request just issued; src is the position in dnsRecordsResponses of the
\* record a PATCH was derived from (0 for the other requests)
Request(op, url, data, src) ==
    [op |-> op, url |-> url, data |-> data, src |-> src,
     pending |-> TRUE, resp |-> NetErr, ret |-> Outcome("none", <<>>, NoErr, FALSE)]

\* the answer to the last request and what the calling function made of it
Answered(l, resp, ret) ==
    [l EXCEPT ![Len(l)] = [@ EXCEPT !.pending = FALSE, !.resp = resp, !.ret = ret]]

NoRun == [ran |-> FALSE, ipAddresses |-> <<>>, listed |-> FALSE, updated |-> FALSE]

----------------------------------------------------------------------------
(* Initial state: main() is entered with some configuration, the provider   *)
(* holds some records                                                       *)

Init ==
    /\ zoneId \in {"", "z1"}
    /\ email \in {"", "e"}
    /\ key \in {"", "k"}
    /\ dnsNamesRawInput \in {<<>>, <<"h">>, <<"h", ",", "o">>, <<"h", "o">>}
    /\ provider \in ProviderStates
    /\ dnsNames = <<>>
    /\ ipv4 = <<>>
    /\ ipAddresses = <<>>
    /\ dnsRecordsResponses = <<>>
    /\ idx = 1
    /\ pc = "start"
    /\ exit = "none"
    /\ log = <<>>
    /\ run = "first"
    /\ prev = NoRun

\* the process ends with the given exit code
Exit(code) ==
    /\ pc' = "done"
    /\ exit' = code

\* log.Fatal
Fatal == Exit("1")

----------------------------------------------------------------------------
(* main(), step by step *)

\* the configuration check without the test of the names
CheckConfigNamesUnchecked ==
    /\ pc = "start"
    /\ IF zoneId = "" \/ email = "" \/ key = ""
       THEN /\ Fatal
            /\ UNCHANGED dnsNames
       ELSE /\ dnsNames' = Split(dnsNamesRawInput, ",")
            /\ pc' = "lookup4"
            /\ UNCHANGED exit
    /\ UNCHANGED <<conf, ipv4, ipAddresses, dnsRecordsResponses, idx, log,
                   provider, run, prev>>

\* main.go:74-78
CheckConfig ==
    /\ pc = "start"
    /\ IF zoneId = "" \/ email = "" \/ key = "" \/ dnsNamesRawInput = <<>>
       THEN /\ Fatal
            /\ UNCHANGED dnsNames
       ELSE /\ dnsNames' = Split(dnsNamesRawInput, ",")
            /\ pc' = "lookup4"
            /\ UNCHANGED exit
    /\ UNCHANGED <<conf, ipv4, ipAddresses, dnsRecordsResponses, idx, log,
                   provider, run, prev>>

\* main.go:160, 177: http.Get for the IPv4 address goes out
SendLookup4 ==
    /\ pc = "lookup4"
    /\ log' = Append(log, Request("GET", EchoUrl("ipv4"), <<>>, 0))
    /\ pc' = "lookup4_wait"
    /\ UNCHANGED <<conf, dnsNames, ipv4, ipAddresses, dnsRecordsResponses, idx,
                   exit, provider, run, prev>>

\* main.go:160-163, 80-83
RecvLookup4 ==
    /\ pc = "lookup4_wait"
    /\ \E resp \in LookupResponses("ipv4") :
         LET r == getExternalIpAddress(resp)
         IN  /\ log' = Answered(log, resp, r)
             /\ IF r.out = "fatal" \/ r.err.kind # "nil"
                THEN /\ Fatal
                     /\ UNCHANGED ipv4
                ELSE /\ ipv4' = r.val
                     /\ pc' = "lookup6"
                     /\ UNCHANGED exit
    /\ UNCHANGED <<conf, dnsNames, ipAddresses, dnsRecordsResponses, idx,
                   provider, run, prev>>

\* main.go:165, 177
SendLookup6 ==
    /\ pc = "lookup6"
    /\ log' = Append(log, Request("GET", EchoUrl("ipv6"), <<>>, 0))
    /\ pc' = "lookup6_wait"
    /\ UNCHANGED <<conf, dnsNames, ipv4, ipAddresses, dnsRecordsResponses, idx,
                   exit, provider, run, prev>>

\* main.go:165-173, 80-83
RecvLookup6 ==
    /\ pc = "lookup6_wait"
    /\ \E resp \in LookupResponses("ipv6") :
         LET r == getExternalIpAddress(resp)
         IN  /\ log' = Answered(log, resp, r)
             /\ IF r.out = "fatal" \/ r.err.kind # "nil"
                THEN /\ Fatal
                     /\ UNCHANGED ipAddresses
                ELSE /\ ipAddresses' = (A :> ipv4) @@ (AAAA :> r.val)
                     /\ pc' = "fetch"
                     /\ UNCHANGED exit
    /\ UNCHANGED <<conf, dnsNames, ipv4, dnsRecordsResponses, idx,
                   provider, run, prev>>

\* main.go:86, 200-212
SendFetch ==
    /\ pc = "fetch"
    /\ log' = Append(log, Request("GET", ListUrl(zoneId), <<>>, 0))
    /\ pc' = "fetch_wait"
    /\ UNCHANGED <<conf, dnsNames, ipv4, ipAddresses, dnsRecordsResponses, idx,
                   exit, provider, run, prev>>

\* main.go:212-227, 86-89
RecvFetch ==
    /\ pc = "fetch_wait"
    /\ \E resp \in FetchResponses(provider) :
         LET r == getDnsRecords(resp)
         IN  /\ log' = Answered(log, resp, r)
             /\ IF r.out = "panic"
                THEN /\ Exit("2")
                     /\ UNCHANGED <<dnsRecordsResponses, idx>>
                ELSE IF r.out = "fatal" \/ r.err.kind # "nil"
                THEN /\ Fatal
                     /\ UNCHANGED <<dnsRecordsResponses, idx>>
                ELSE /\ dnsRecordsResponses' = r.val
                     /\ idx' = 1
                     /\ pc' = "loop"
                     /\ UNCHANGED exit
    /\ UNCHANGED <<conf, dnsNames, ipv4, ipAddresses, provider, run, prev>>

\* main.go:91-108, 116-133: one pass of the loop body, up to the PATCH going out
LoopIteration ==
    /\ pc = "loop"
    /\ idx <= Len(dnsRecordsResponses)
    /\ LET dnsRecord == CreateDnsRecordFrom(dnsRecordsResponses[idx])
       IN  IF NeedsUpdate(dnsNames, ipAddresses, dnsRecord)
           THEN LET record == [dnsRecord EXCEPT !.Content = ipAddresses[dnsRecord.Type]]
                IN  /\ log' = Append(log, Request("PATCH", RecordUrl(record),
                                                  Marshal(record), idx))
                    /\ pc' = "update_wait"
                    /\ UNCHANGED idx
           ELSE /\ idx' = idx + 1
                /\ UNCHANGED <<log, pc>>
    /\ UNCHANGED <<conf, dnsNames, ipv4, ipAddresses, dnsRecordsResponses, exit,
                   provider, run, prev>>

\* main.go:133-156, 108-110
RecvUpdate ==
    /\ pc = "update_wait"
    /\ \E resp \in UpdateResponses :
         LET req == log[Len(log)]
             r == updateDnsRecord(req.data, resp)
         IN  /\ log' = Answered(log, resp, r)
             /\ provider' = IF resp.kind = "resp" /\ resp.status = StatusOK
                            THEN ApplyPatch(provider, req.url, req.data)
                            ELSE provider
             /\ IF r.out = "fatal" \/ r.err.kind # "nil"
                THEN /\ Fatal
                     /\ UNCHANGED idx
                ELSE /\ idx' = idx + 1
                     /\ pc' = "loop"
                     /\ UNCHANGED exit
    /\ UNCHANGED <<conf, dnsNames, ipv4, ipAddresses, dnsRecordsResponses,
                   run, prev>>

\* main.go:111-113: the loop is over, main returns
MainReturn ==
    /\ pc = "loop"
    /\ idx > Len(dnsRecordsResponses)
    /\ Exit("0")
    /\ UNCHANGED <<conf, dnsNames, ipv4, ipAddresses, dnsRecordsResponses, idx,
                   log, provider, run, prev>>

\* the program is started again with the same configuration, after a run
\* that ended with exit code 0
Restart ==
    /\ pc = "done"
    /\ exit = "0"
    /\ run = "first"
    /\ run' = "second"
    /\ prev' = [ran |-> TRUE, ipAddresses |-> ipAddresses,
                listed |-> log[3].resp.body.kind = "list",
                updated |-> Len(log) > 3]
    /\ dnsNames' = <<>>
    /\ ipv4' = <<>>
    /\ ipAddresses' = <<>>
    /\ dnsRecordsResponses' = <<>>
    /\ idx' = 1
    /\ pc' = "start"
    /\ exit' = "none"
    /\ log' = <<>>
    /\ UNCHANGED <<conf, provider>>

Next ==
    \/ CheckConfig
    \/ SendLookup4
    \/ RecvLookup4
    \/ SendLookup6
    \/ RecvLookup6
    \/ SendFetch
    \/ RecvFetch
    \/ LoopIteration
    \/ RecvUpdate
    \/ MainReturn
    \/ Restart

Spec == Init /\ [][Next]_vars

----------------------------------------------------------------------------
(* Vocabulary of the properties *)

IsPatch(k) == log[k].op = "PATCH"

PatchIndexes == {k \in 1..Len(log) : IsPatch(k)}

\* the fetched record a PATCH was derived from
Source(k) == dnsRecordsResponses[log[k].src]

SyncNames == {dnsNames[j] : j \in 1..Len(dnsNames)}

\* the record at position i of the fetched list qualifies for an update
Qualifies(i) ==
    LET e == dnsRecordsResponses[i]
    IN  /\ e.Name \in SyncNames
        /\ e.Type \in {A, AAAA}
        /\ e.Content # ipAddresses[e.Type]

ConfigComplete ==
    zoneId # "" /\ email # "" /\ key # "" /\ dnsNamesRawInput # <<>>

Got200(e) == ~e.pending /\ e.resp.kind = "resp" /\ e.resp.status = "200"

ReturnedNil(e) == e.ret.out = "return" /\ e.ret.err.kind = "nil"

Finished == pc = "done"

----------------------------------------------------------------------------
(* C1: in a run that ends without any failure, a fetched record gets an     *)
(* update request iff its name is one of the sync names, its type is A or   *)
(* AAAA and its content differs from the address resolved for that type;    *)
(* and at no time is there an update request for a record whose name is not *)
(* a sync name or whose type is neither A nor AAAA.                         *)
C1_UpdateIffEligible ==
    /\ \A k \in PatchIndexes :
          Source(k).Name \in SyncNames /\ Source(k).Type \in {A, AAAA}
    /\ (Finished /\ exit = "0") =>
          \A i \in 1..Len(dnsRecordsResponses) :
              (\E k \in PatchIndexes : log[k].src = i) <=> Qualifies(i)

\* a run ended with exit code 0 having updated one record and passed over another
C1_Witness ==
    /\ Finished /\ exit = "0"
    /\ \E i, j \in 1..Len(dnsRecordsResponses) : Qualifies(i) /\ ~Qualifies(j)
    /\ PatchIndexes # {}

(* C3: every update request carries exactly {"content": addressSet[type]}   *)
(* for the type of its source record and nothing else, and is addressed to  *)
(* the zone id and the record id of that source record.                     *)
C3_PayloadAndTarget ==
    \A k \in PatchIndexes :
        /\ DOMAIN log[k].data = {"content"}
        /\ log[k].data.content = ipAddresses[Source(k).Type]
        /\ log[k].url = CLOUDFLARE \o <<Source(k).ZoneId, "dns_records", Source(k).Id>>

\* an update went out for a record of another zone than the configured one
C3_Witness ==
    \E k \in PatchIndexes : Source(k).ZoneId # zoneId /\ ~log[k].pending

(* C9: update requests follow the order of the fetched list, one request    *)
(* per qualifying occurrence (a record listed twice is updated twice), and  *)
(* there are never more update requests than fetched records.               *)
C9_OrderNoDedup ==
    /\ \A k, l \in PatchIndexes : k < l => log[k].src < log[l].src
    /\ Cardinality(PatchIndexes) <= Len(dnsRecordsResponses)
    /\ (Finished /\ exit = "0") =>
          Cardinality(PatchIndexes) =
              Cardinality({i \in 1..Len(dnsRecordsResponses) : Qualifies(i)})

\* the same record was listed twice and got two update requests
C9_Witness ==
    \E k, l \in PatchIndexes :
        k < l /\ Source(k) = Source(l) /\ log[k].url = log[l].url

(* C10: the stages never overlap and come in a fixed order: no request      *)
(* before the configuration check passed; a request goes out only when      *)
(* every earlier one was answered; the first request is the IPv4 lookup,    *)
(* the second the IPv6 lookup, the third the record list, all later ones    *)
(* updates; and when an update goes out both addresses and the record list  *)
(* are known.                                                               *)
C10_StagesInOrder ==
    /\ log # <<>> => ConfigComplete
    /\ \A k \in 1..Len(log) : log[k].pending => k = Len(log)
    /\ \A k \in 1..Len(log) :
          /\ k = 1 => log[k].op = "GET" /\ log[k].url = <<"ipv4", "icanhazip.com">>
          /\ k = 2 => log[k].op = "GET" /\ log[k].url = <<"ipv6", "icanhazip.com">>
          /\ k = 3 => log[k].op = "GET"
                      /\ log[k].url = CLOUDFLARE \o <<zoneId, "dns_records">>
          /\ k > 3 <=> IsPatch(k)
    /\ PatchIndexes # {} =>
          /\ DOMAIN ipAddresses = {A, AAAA}
          /\ log[3].ret.out = "return" /\ log[3].ret.val = dnsRecordsResponses

\* two updates were issued and answered, one after the other
C10_Witness ==
    Len(log) = 5 /\ ~log[5].pending

(* C7: a record whose content already equals the resolved address of its    *)
(* type never gets an update request; and when a run that worked on the     *)
(* provider's record list ended with every update applied, a second run     *)
(* that resolves the same addresses issues no update request at all.        *)
C7_Idempotent ==
    /\ \A k \in PatchIndexes : Source(k).Content # ipAddresses[Source(k).Type]
    /\ (/\ run = "second"
        /\ prev.listed
        /\ DOMAIN ipAddresses = {A, AAAA}
        /\ \A t \in {A, AAAA} : ipAddresses[t] = prev.ipAddresses[t])
       => PatchIndexes = {}

\* the second run read a non-empty list the first run had updated, resolved
\* the same addresses and ended
C7_Witness ==
    /\ run = "second" /\ prev.listed /\ prev.updated
    /\ Finished /\ exit = "0"
    /\ DOMAIN ipAddresses = {A, AAAA}
    /\ \A t \in {A, AAAA} : ipAddresses[t] = prev.ipAddresses[t]
    /\ \E i \in 1..Len(dnsRecordsResponses) :
          dnsRecordsResponses[i].Name \in SyncNames
          /\ dnsRecordsResponses[i].Type \in {A, AAAA}

(* C6 as stated: updateDnsRecord returns nil iff the PATCH is answered with *)
(* status 200; with any other status it returns the error made of the       *)
(* request payload, the response status and the response body; and the body *)
(* is closed on both paths.                                                 *)
C6_SuccessIffStatus200 ==
    \A k \in PatchIndexes :
        ~log[k].pending =>
            /\ ReturnedNil(log[k]) <=> Got200(log[k])
            /\ (log[k].resp.kind = "resp" /\ log[k].resp.status # "200") =>
                  /\ log[k].ret.out = "return"
                  /\ log[k].ret.err.kind = "update"
                  /\ log[k].ret.err.data = log[k].data
                  /\ log[k].ret.err.status = log[k].resp.status
                  /\ log[k].ret.err.body = log[k].resp.body.text
            /\ log[k].resp.kind = "resp" => log[k].ret.closed

(* C6, amended: updateDnsRecord returns nil only if the PATCH is answered   *)
(* with status 200; when the response body is read and closed without       *)
(* error it returns nil if the status is 200 and otherwise the error made   *)
(* of the request payload, the response status and the response body; and   *)
(* whenever a response arrived its body is closed.                          *)
C6_SuccessOnlyIfStatus200 ==
    \A k \in PatchIndexes :
        ~log[k].pending =>
            /\ ReturnedNil(log[k]) => Got200(log[k])
            /\ (/\ log[k].resp.kind = "resp"
                /\ ~log[k].resp.readErr
                /\ ~log[k].resp.closeErr) =>
                  IF log[k].resp.status = "200"
                  THEN ReturnedNil(log[k])
                  ELSE /\ log[k].ret.out = "return"
                       /\ log[k].ret.err.kind = "update"
                       /\ log[k].ret.err.data = log[k].data
                       /\ log[k].ret.err.status = log[k].resp.status
                       /\ log[k].ret.err.body = log[k].resp.body.text
            /\ log[k].resp.kind = "resp" => log[k].ret.closed

\* a PATCH was answered 403 with a readable body
C6_Witness ==
    \E k \in PatchIndexes :
        /\ ~log[k].pending
        /\ log[k].resp.kind = "resp" /\ log[k].resp.status = "403"
        /\ ~log[k].resp.readErr
        /\ log[k].ret.err.body = <<"n", "o">>

\* a lookup that went wrong: transport error or a status other than 200
LookupFailed(e) == ~e.pending /\ ~Got200(e)

\* a record fetch that went wrong: transport error or a body that is not JSON
FetchFailed(e) ==
    ~e.pending /\ (e.resp.kind # "resp" \/ e.resp.body.kind = "garbage")

\* an update that went wrong: transport error or a status other than 200
UpdateFailed(e) == ~e.pending /\ ~Got200(e)

Failed(k) ==
    IF k <= 2 THEN LookupFailed(log[k])
    ELSE IF k = 3 THEN FetchFailed(log[k])
    ELSE UpdateFailed(log[k])

(* C2: an AddressSet is returned only if both lookups were answered with    *)
(* status 200 and no transport error; when either lookup fails no           *)
(* AddressSet is returned and no record fetch or update follows.            *)
C2_BothLookupsOrNothing ==
    /\ DOMAIN ipAddresses # {} => Got200(log[1]) /\ Got200(log[2])
    /\ \A k \in 1..Len(log) : (k <= 2 /\ LookupFailed(log[k])) => Len(log) = k

(* C4: the first failure stops the run: a failed lookup, fetch or update is *)
(* the last request of the run; and no request is issued twice.             *)
C4_FirstFailureStops ==
    /\ \A k \in 1..Len(log) : Failed(k) => k = Len(log)
    /\ \A k, l \in 1..Len(log) :
          (k # l /\ log[k].op = "GET") => log[k].url # log[l].url
    /\ \A k, l \in PatchIndexes : k # l => log[k].src # log[l].src

(* C5: when the list request fails in transport or its body does not        *)
(* decode, getDnsRecords returns an error and no records, main ends the     *)
(* process through log.Fatal (exit code 1) and no update is attempted.      *)
C5_FetchErrorReturned ==
    (Len(log) >= 3 /\ FetchFailed(log[3])) =>
        /\ log[3].ret.out = "return"
        /\ log[3].ret.err.kind # "nil"
        /\ log[3].ret.val = <<>>
        /\ exit = "1"
        /\ PatchIndexes = {}

(* C8: exit code 0 only on full success: complete configuration, both       *)
(* lookups answered 200, the fetch succeeded and every update succeeded.    *)
C8_ExitZeroOnlyOnSuccess ==
    exit = "0" =>
        /\ ConfigComplete
        /\ Len(log) >= 3
        /\ Got200(log[1]) /\ Got200(log[2])
        /\ ~FetchFailed(log[3])
        /\ \A k \in PatchIndexes : Got200(log[k])

====
